---- MODULE Spec2Model ----
(***************************************************************************)
(* State machine of the single view component of safe-map (App.jsx): the   *)
(* React state of App, the invocations of its asynchronous handlers        *)
(* (handleAnalyze, handleSearch, handleSendChat) with their captured       *)
(* locals, and the HTTP requests in flight.  Each action is one            *)
(* run-to-completion piece of a handler: from an event or a resolved       *)
(* promise up to the next await.                                           *)
(*                                                                         *)
(* Text is a tuple of one-character strings, so that String.trim is        *)
(* computed and not assumed.  A missing JSON field (JavaScript undefined)  *)
(* is the value Undefined.                                                 *)
(*                                                                         *)
(* App.jsx holds two versions of App.  Spec is the view of the second one  *)
(* (search box, Analyze button, news list, summary, chat).  SpecNews puts  *)
(* the Enter-key search of the first version beside the analysis of the    *)
(* second and leaves the chat out: the chat handlers write none of the     *)
(* variables the search and the analysis read.  SpecNewsHist is SpecNews   *)
(* with the history variable latest kept up to date.                       *)
(***************************************************************************)
EXTENDS Integers, Sequences, FiniteSets, TLC

\* ------------------------------------------------------------------ bounds
MaxAnalyze == 2     \* Analyze clicks that start an analysis
MaxSearch == 1      \* Enter-key searches that start a geocoding request
MaxSend == 2        \* chat messages sent
MaxResp == 2        \* length of a classification response array

\* --------------------------------------------------------------- constants
FlyZoom == 10
InitZoom == 4
DefaultRank == 99

Undefined == "<undefined>"

\* ------------------------------------------------------------------- text
Space == " "

RECURSIVE TrimStart(_)
TrimStart(s) ==
    IF s # <<>> /\ Head(s) = Space THEN TrimStart(Tail(s)) ELSE s

RECURSIVE TrimEnd(_)
TrimEnd(s) ==
    IF s # <<>> /\ s[Len(s)] = Space THEN TrimEnd(SubSeq(s, 1, Len(s) - 1)) ELSE s

\* String.prototype.trim
Trim(s) == TrimEnd(TrimStart(s))

\* what the user can type in the search box
Queries == { <<>>, <<Space>>, <<Space, "g">> }

\* what the user can type in the chat box
ChatInputs == { <<>>, <<Space>>, <<"q", Space>> }

\* ------------------------------------------------------ geocoding service
Center1 == <<73, 15>>
Center2 == <<77, 28>>
InitCenter == <<78, 21>>

\* parsed geocoding bodies: no features field, no feature, two features
GeoData ==
    { [has |-> FALSE, features |-> <<>>],
      [has |-> TRUE, features |-> <<>>],
      [has |-> TRUE, features |-> << [center |-> Center2], [center |-> Center1] >>] }

\* a fetch rejects, its body does not parse, or it yields a parsed body
GeoOutcomes ==
    { [kind |-> "reject"], [kind |-> "badjson"] }
        \cup { [kind |-> "ok", data |-> d] : d \in GeoData }

\* geoData.features?.length  /  data.features && data.features.length > 0
HasFeature(d) == d.has /\ Len(d.features) > 0

\* variant: the center of the last feature
FlyTargetFar(d) == [center |-> d.features[Len(d.features)].center, zoom |-> FlyZoom]

\* flyTo({ center: features[0].center, zoom: 10 })
FlyTarget(d) == [center |-> d.features[1].center, zoom |-> FlyZoom]

\* ------------------------------------------------- classification service
Item(t, l, c, th) == [title |-> t, link |-> l, category |-> c, threat |-> th]

\* what the service can put in its array: a label may be missing, and the
\* labels are whatever text the language model wrote
Items ==
    { Item("t1", "l1", Undefined, "HIGH"),
      Item("t2", "l2", "crime", "NaN"),
      Item("t3", "l3", "constructor", "toString") }

SeqsUpTo(S, n) == UNION { [1..k -> S] : k \in 0..n }

\* parsed classification bodies: an array of items, or a value that is no
\* array (the service's error object)
NewsBodies ==
    { [isArray |-> FALSE, items |-> <<>>] }
        \cup { [isArray |-> TRUE, items |-> s] : s \in SeqsUpTo(Items, MaxResp) }

NewsOutcomes ==
    { [kind |-> "reject"], [kind |-> "badjson"] }
        \cup { [kind |-> "ok", data |-> b] : b \in NewsBodies }

\* news.filter(...) throws: news has no filter method
FilterThrows(b) == ~b.isArray

\* variant: a filter that keeps every item
KeepAll(item) == TRUE

\* item => item.threat !== 'NaN'
KeepItem(item) == item.threat # "NaN"

RECURSIVE FilterSeq(_)
FilterSeq(s) ==
    IF s = <<>> THEN <<>>
    ELSE IF KeepItem(Head(s)) THEN <<Head(s)>> \o FilterSeq(Tail(s))
    ELSE FilterSeq(Tail(s))

\* own properties every plain object inherits from Object.prototype
ObjectPrototypeKeys == { "constructor", "toString" }

\* JavaScript values met in countByCategory
Num(n) == [type |-> "number", n |-> n]
\* the text of an inherited function followed by n characters "1"
Str(n) == [type |-> "string", n |-> n]

\* item.category || 'unknown'
CategoryOf(item) ==
    IF item.category = Undefined \/ item.category = "" THEN "unknown" ELSE item.category

\* (countByCategory[cat] || 0) + 1 on a plain object literal
Bump(acc, cat) ==
    IF cat \in DOMAIN acc
      THEN IF acc[cat].type = "number" THEN Num(acc[cat].n + 1) ELSE Str(acc[cat].n + 1)
      ELSE IF cat \in ObjectPrototypeKeys THEN Str(1) ELSE Num(1)

Put(acc, k, v) == [x \in DOMAIN acc \cup {k} |-> IF x = k THEN v ELSE acc[x]]

EmptyObject == [x \in {} |-> Num(0)]

RECURSIVE CountFrom(_, _)
CountFrom(acc, s) ==
    IF s = <<>> THEN acc
    ELSE CountFrom(Put(acc, CategoryOf(Head(s)), Bump(acc, CategoryOf(Head(s)))), Tail(s))

\* filtered.forEach(item => ...) from {}
CountByCategory(s) == CountFrom(EmptyObject, s)


\* ------------------------------------------------------------- rendering
\* order[threat] of { HIGH: 0, MEDIUM: 1, LOW: 2 }, then ?? 99: a threat that
\* names an inherited property yields a function, which is not nullish
Rank(threat) ==
    CASE threat = "HIGH" -> 0
      [] threat = "MEDIUM" -> 1
      [] threat = "LOW" -> 2
      [] OTHER -> DefaultRank

\* (order[a.threat] ?? 99) - (order[b.threat] ?? 99); a function operand
\* makes the difference NaN, which Array.prototype.sort takes as +0
Compare(a, b) ==
    IF a.threat \in ObjectPrototypeKeys \/ b.threat \in ObjectPrototypeKeys
      THEN 0
      ELSE Rank(a.threat) - Rank(b.threat)

\* stable insertion of x into a sorted prefix
RECURSIVE InsertSorted(_, _)
InsertSorted(sorted, x) ==
    IF sorted = <<>> THEN <<x>>
    ELSE IF Compare(sorted[Len(sorted)], x) > 0
      THEN InsertSorted(SubSeq(sorted, 1, Len(sorted) - 1), x) \o <<sorted[Len(sorted)]>>
      ELSE sorted \o <<x>>

RECURSIVE SortFrom(_, _)
SortFrom(sorted, rest) ==
    IF rest = <<>> THEN sorted ELSE SortFrom(InsertSorted(sorted, Head(rest)), Tail(rest))

\* newsData.slice().sort(comparator)
SortByThreat(s) == SortFrom(<<>>, s)

\* -------------------------------------------------------------- the chat
SystemMsg(title) ==
    [role |-> "system",
     content |-> <<"You are an assistant helping users explore this news: ", title,
                   ". Answer their questions.">>]

UserMsg(text) == [role |-> "user", content |-> text]
AiMsg(text) == [role |-> "ai", content |-> text]

\* parsed bodies of the generative service: without and with a response field
GenData ==
    { [has |-> FALSE, response |-> <<>>],
      [has |-> TRUE, response |-> <<"a", Space>>] }

GenOutcomes ==
    { [kind |-> "reject"], [kind |-> "badjson"] }
        \cup { [kind |-> "ok", data |-> d] : d \in GenData }

\* ------------------------------------------------------------------ state
VARIABLES
    searchQuery,    \* useState('')
    newsData,       \* useState([])
    summary,        \* useState({})
    loading,        \* useState(false)
    chatOpen,       \* useState(false)
    chatTitle,      \* useState('')
    chatMessages,   \* useState([])
    chatInput,      \* useState('')
    chatLoading,    \* useState(false)
    mapView,        \* center and zoom of the map instance
    dialog,         \* the alert raised by the step just taken, "" if none
    logged,         \* the console.error line written by the step just taken
    nAnalyze,       \* handleAnalyze invocations started (their ids, in order)
    nSend,          \* handleSendChat invocations started
    net,            \* awaited fetches: the suspended invocation and its locals
    latest,         \* history: the latest-started analysis that succeeded
    last            \* history: the step just taken and what the service sent

chatVars == <<chatOpen, chatTitle, chatMessages, chatInput, chatLoading>>
newsVars == <<newsData, summary, loading>>
viewVars == <<searchQuery, newsVars, chatVars>>
callVars == <<nAnalyze, nSend, net>>
progVars == <<viewVars, mapView, callVars>>
vars == <<progVars, dialog, logged, latest, last>>

\* an invocation suspended at an await of fetch(url), with the locals it
\* will use when it resumes
Req(caller, id, url, locals) == [caller |-> caller, id |-> id, url |-> url, locals |-> locals]

GeoReq(caller, id, query) == Req(caller, id, "geocoding", <<query>>)
NewsReq(id, location) == Req("handleAnalyze", id, "analyze", <<location>>)
GenReq(id, newMessages) == Req("handleSendChat", id, "generate", newMessages)

Pending(caller, url) == { r \in net : r.caller = caller /\ r.url = url }

NoOut == [kind |-> "none"]

\* what every step leaves behind for the observer
Event(op, id, out, alert, errorLine) ==
    /\ last' = [op |-> op, id |-> id, out |-> out]
    /\ dialog' = alert
    /\ logged' = errorLine

Quiet(op, id, out) == Event(op, id, out, "", "")

Init ==
    /\ searchQuery = <<>>
    /\ newsData = <<>>
    /\ summary = EmptyObject
    /\ loading = FALSE
    /\ chatOpen = FALSE
    /\ chatTitle = ""
    /\ chatMessages = <<>>
    /\ chatInput = <<>>
    /\ chatLoading = FALSE
    /\ mapView = [center |-> InitCenter, zoom |-> InitZoom]
    /\ dialog = ""
    /\ logged = ""
    /\ nAnalyze = 0
    /\ nSend = 0
    /\ net = {}
    /\ latest = [id |-> 0, news |-> <<>>]
    /\ last = [op |-> "init", id |-> 0, out |-> NoOut]

\* ------------------------------------------------------------ search box
\* onChange of the search input
SetSearchQuery(q) ==
    /\ q # searchQuery
    /\ searchQuery' = q
    /\ Quiet("setSearchQuery", 0, NoOut)
    /\ UNCHANGED <<newsVars, chatVars, mapView, callVars>>

\* ---------------------------------------------------------- handleAnalyze
\* variant: both fetches issued without awaiting the first
AnalyzeStartRequestsBoth(id, location) ==
    { GeoReq("handleAnalyze", id, location), NewsReq(id, location) }

\* the fetches handleAnalyze has issued when it first suspends
AnalyzeStartRequests(id, location) == { GeoReq("handleAnalyze", id, location) }

\* the Analyze button: handleAnalyze up to its first await
AnalyzeClick ==
    LET location == Trim(searchQuery)
        id == nAnalyze + 1
    IN  IF location = <<>>
          THEN /\ Quiet("handleAnalyze", 0, NoOut)
               /\ UNCHANGED progVars
          ELSE /\ id <= MaxAnalyze
               /\ loading' = TRUE
               /\ newsData' = <<>>
               /\ summary' = EmptyObject
               /\ nAnalyze' = id
               /\ net' = net \cup AnalyzeStartRequests(id, location)
               /\ Quiet("handleAnalyze", id, NoOut)
               /\ UNCHANGED <<searchQuery, chatVars, mapView, nSend>>

\* the geocoding fetch settles: handleAnalyze from geo.json() to the second
\* fetch; a rejection or a parse error leaves the function by an exception
\* nothing catches
AnalyzeGeo(r, out) ==
    /\ r \in Pending("handleAnalyze", "geocoding")
    /\ Quiet("analyzeGeo", r.id, out)
    /\ IF out.kind = "ok"
         THEN /\ mapView' = IF HasFeature(out.data) THEN FlyTarget(out.data) ELSE mapView
              /\ net' = (net \ {r}) \cup {NewsReq(r.id, r.locals[1])}
         ELSE /\ net' = net \ {r}
              /\ UNCHANGED mapView
    /\ UNCHANGED <<viewVars, nAnalyze, nSend>>

\* the classification fetch settles: the try block, its catch, and
\* setLoading(false)
AnalyzeNews(r, out) ==
    /\ r \in Pending("handleAnalyze", "analyze")
    /\ net' = net \ {r}
    /\ loading' = FALSE
    /\ IF out.kind = "ok" /\ ~FilterThrows(out.data)
         THEN LET filtered == FilterSeq(out.data.items)
              IN  /\ newsData' = filtered
                  /\ summary' = CountByCategory(filtered)
                  /\ Quiet("analyzeNews", r.id, out)
         ELSE /\ Event("analyzeNews", r.id, out, "", "API error")
              /\ UNCHANGED <<newsData, summary>>
    /\ UNCHANGED <<searchQuery, chatVars, mapView, nAnalyze, nSend>>

\* ----------------------------------------------------------- handleSearch
Keys == { "Enter", "a" }

\* a free slot for one more handleSearch invocation
FreeSearchIds == { i \in 1..MaxSearch : \A r \in Pending("handleSearch", "geocoding") : r.id # i }

\* onKeyDown of the search input: handleSearch up to its first await
SearchKeyDown(key) ==
    IF key = "Enter" /\ Trim(searchQuery) # <<>>
      THEN /\ FreeSearchIds # {}
           /\ LET id == CHOOSE i \in FreeSearchIds : \A j \in FreeSearchIds : i <= j
              IN  /\ net' = net \cup {GeoReq("handleSearch", id, searchQuery)}
                  /\ Quiet("handleSearch", id, NoOut)
           /\ UNCHANGED <<viewVars, mapView, nAnalyze, nSend>>
      ELSE /\ Quiet("handleSearch", 0, NoOut)
           /\ UNCHANGED progVars

\* the geocoding fetch of handleSearch settles
SearchGeo(r, out) ==
    /\ r \in Pending("handleSearch", "geocoding")
    /\ net' = net \ {r}
    /\ IF out.kind = "ok"
         THEN IF HasFeature(out.data)
                THEN mapView' = FlyTarget(out.data) /\ Quiet("searchGeo", r.id, out)
                ELSE /\ Event("searchGeo", r.id, out, "Location not found.", "")
                     /\ UNCHANGED mapView
         ELSE Quiet("searchGeo", r.id, out) /\ UNCHANGED mapView
    /\ UNCHANGED <<viewVars, nAnalyze, nSend>>

\* --------------------------------------------------------------- the chat
\* the list the news panel shows: nothing while loading
Rendered == IF loading THEN <<>> ELSE SortByThreat(newsData)

\* the Chat button of the i-th rendered article
ChatClick(i) ==
    /\ i \in 1..Len(Rendered)
    /\ chatTitle' = Rendered[i].title
    /\ chatMessages' = << SystemMsg(Rendered[i].title) >>
    /\ chatOpen' = TRUE
    /\ Quiet("chatClick", i, NoOut)
    /\ UNCHANGED <<searchQuery, newsVars, chatInput, chatLoading, mapView, callVars>>

\* onChange of the chat input
SetChatInput(text) ==
    /\ chatOpen
    /\ text # chatInput
    /\ chatInput' = text
    /\ Quiet("setChatInput", 0, NoOut)
    /\ UNCHANGED <<searchQuery, newsVars, chatOpen, chatTitle, chatMessages, chatLoading,
                   mapView, callVars>>

\* the Close button
CloseChat ==
    /\ chatOpen
    /\ chatOpen' = FALSE
    /\ Quiet("closeChat", 0, NoOut)
    /\ UNCHANGED <<searchQuery, newsVars, chatTitle, chatMessages, chatInput, chatLoading,
                   mapView, callVars>>

\* handleSendChat up to its await
HandleSendChat(via) ==
    LET id == nSend + 1
        newMessages == Append(chatMessages, UserMsg(Trim(chatInput)))
    IN  IF Trim(chatInput) = <<>>
          THEN /\ Quiet(via, 0, NoOut)
               /\ UNCHANGED progVars
          ELSE /\ id <= MaxSend
               /\ chatMessages' = newMessages
               /\ chatInput' = <<>>
               /\ chatLoading' = TRUE
               /\ nSend' = id
               /\ net' = net \cup {GenReq(id, newMessages)}
               /\ Quiet(via, id, NoOut)
               /\ UNCHANGED <<searchQuery, newsVars, chatOpen, chatTitle, mapView,
                              nAnalyze>>

\* the Send button, disabled while chatLoading or on a blank input
SendClick ==
    /\ chatOpen
    /\ ~(chatLoading \/ Trim(chatInput) = <<>>)
    /\ HandleSendChat("sendClick")

\* Enter in the chat input
SendEnter ==
    /\ chatOpen
    /\ Trim(chatInput) # <<>>
    /\ HandleSendChat("sendEnter")

\* the generative fetch settles: handleSendChat after its await, which
\* appends to the newMessages it built before the await; a rejection, a
\* parse error or a body without response leaves it by an exception
ChatReply(r, out) ==
    /\ r \in Pending("handleSendChat", "generate")
    /\ Quiet("chatReply", r.id, out)
    /\ net' = net \ {r}
    /\ IF out.kind = "ok" /\ out.data.has
         THEN /\ chatMessages' = Append(r.locals, AiMsg(Trim(out.data.response)))
              /\ chatLoading' = FALSE
         ELSE UNCHANGED <<chatMessages, chatLoading>>
    /\ UNCHANGED <<searchQuery, newsVars, chatOpen, chatTitle, chatInput, mapView,
                   nAnalyze, nSend>>

\* ---------------------------------------------------------- specification
\* the classification response the step just taken handled with success
Succeeded(step) ==
    step.op = "analyzeNews" /\ step.out.kind = "ok" /\ ~FilterThrows(step.out.data)

\* history: remember the result of the latest-started successful analysis
Remember ==
    latest' = IF Succeeded(last') /\ last'.id > latest.id
                THEN [id |-> last'.id, news |-> newsData']
                ELSE latest

\* the view of the second App: search box, Analyze button, news list, chat
Next ==
    \/ \E q \in Queries : SetSearchQuery(q) /\ UNCHANGED latest
    \/ AnalyzeClick /\ UNCHANGED latest
    \/ \E r \in net, out \in GeoOutcomes : AnalyzeGeo(r, out) /\ UNCHANGED latest
    \/ \E r \in net, out \in NewsOutcomes : AnalyzeNews(r, out) /\ UNCHANGED latest
    \/ \E i \in 1..MaxResp : ChatClick(i) /\ UNCHANGED latest
    \/ \E text \in ChatInputs : SetChatInput(text) /\ UNCHANGED latest
    \/ CloseChat /\ UNCHANGED latest
    \/ SendClick /\ UNCHANGED latest
    \/ SendEnter /\ UNCHANGED latest
    \/ \E r \in net, out \in GenOutcomes : ChatReply(r, out) /\ UNCHANGED latest

Spec == Init /\ [][Next]_vars

\* the search box, with the key handler of the first App and the Analyze
\* button of the second, and the analysis; the chat panel stays closed
NextNews ==
    \/ \E q \in Queries : SetSearchQuery(q) /\ UNCHANGED latest
    \/ AnalyzeClick /\ UNCHANGED latest
    \/ \E r \in net, out \in GeoOutcomes : AnalyzeGeo(r, out) /\ UNCHANGED latest
    \/ \E r \in net, out \in NewsOutcomes : AnalyzeNews(r, out) /\ UNCHANGED latest
    \/ \E key \in Keys : SearchKeyDown(key) /\ UNCHANGED latest
    \/ \E r \in net, out \in GeoOutcomes : SearchGeo(r, out) /\ UNCHANGED latest

SpecNews == Init /\ [][NextNews]_vars

\* the same, with the history of successful analyses
NextNewsHist ==
    \/ \E q \in Queries : SetSearchQuery(q) /\ Remember
    \/ AnalyzeClick /\ Remember
    \/ \E r \in net, out \in GeoOutcomes : AnalyzeGeo(r, out) /\ Remember
    \/ \E r \in net, out \in NewsOutcomes : AnalyzeNews(r, out) /\ Remember
    \/ \E key \in Keys : SearchKeyDown(key) /\ Remember
    \/ \E r \in net, out \in GeoOutcomes : SearchGeo(r, out) /\ Remember

SpecNewsHist == Init /\ [][NextNewsHist]_vars

\* =================================================================== claims
AnalysisInFlight == \E r \in net : r.caller = "handleAnalyze"

\* the label an item is counted under, as the summary is specified
LabelOf(item) == IF item.category = Undefined THEN "unknown" ELSE item.category

CountIn(s, c) == Cardinality({ i \in 1..Len(s) : LabelOf(s[i]) = c })

RECURSIVE SumOver(_, _)
SumOver(f, keys) ==
    IF keys = {} THEN 0
    ELSE LET k == CHOOSE x \in keys : TRUE
         IN  (IF f[k].type = "number" THEN f[k].n ELSE 0) + SumOver(f, keys \ {k})

\* C1: in every reachable state summary is exactly the per-category count of
\* newsData: each label of summary maps to the number (not zero) of items
\* counted under it, every item's label is in summary, and the counts add up
\* to the length of newsData.
C1_SummaryCountsNewsData ==
    /\ \A c \in DOMAIN summary :
          CountIn(newsData, c) > 0 /\ summary[c] = Num(CountIn(newsData, c))
    /\ \A i \in 1..Len(newsData) : LabelOf(newsData[i]) \in DOMAIN summary
    /\ SumOver(summary, DOMAIN summary) = Len(newsData)

\* C2: whenever no analysis is in flight, newsData and summary are what the
\* classification response of the most recently started successful analysis
\* gave, never the result of an older one.  Stated for the states in which
\* the analysis started last is itself a successful one, so that no failed
\* analysis stands between that result and the list.
C2_ReflectsLatestSuccess ==
    (~AnalysisInFlight /\ latest.id > 0 /\ latest.id = nAnalyze) =>
        /\ newsData = latest.news
        /\ summary = CountByCategory(latest.news)

\* C3: the chat is per article: a Chat click leaves exactly the system message
\* naming the clicked title, and whenever the panel is open the transcript
\* starts with the system message of the article named by chatTitle and goes
\* on with user and ai messages only.
C3_ChatPerArticle ==
    /\ last.op = "chatClick" => chatMessages = << SystemMsg(chatTitle) >>
    /\ chatOpen =>
          /\ Len(chatMessages) >= 1
          /\ chatMessages[1] = SystemMsg(chatTitle)
          /\ \A i \in 2..Len(chatMessages) : chatMessages[i].role \in {"user", "ai"}

IsPrefix(s, t) == Len(s) <= Len(t) /\ \A i \in 1..Len(s) : s[i] = t[i]

IsBlank(s) == \A i \in 1..Len(s) : s[i] = Space

\* t is s without the spaces at its two ends
IsTrimOf(t, s) ==
    /\ t # <<>> => t[1] # Space /\ t[Len(t)] # Space
    /\ \E i \in 0..Len(s) :
          /\ i + Len(t) <= Len(s)
          /\ SubSeq(s, i + 1, i + Len(t)) = t
          /\ \A k \in (1..i) \cup ((i + Len(t) + 1)..Len(s)) : s[k] = Space

\* C4: the transcript only grows until a Chat button resets it: a send
\* appends the trimmed user message, a response appends one ai message, and
\* every message already there keeps its position.
C4_TranscriptOnlyGrows ==
    [][ /\ last'.op # "chatClick" => IsPrefix(chatMessages, chatMessages')
        /\ (last'.op \in {"sendClick", "sendEnter"} /\ last'.id > 0) =>
              /\ Len(chatMessages') = Len(chatMessages) + 1
              /\ chatMessages'[Len(chatMessages')].role = "user"
              /\ IsTrimOf(chatMessages'[Len(chatMessages')].content, chatInput)
        /\ (last'.op = "chatReply" /\ chatMessages' # chatMessages) =>
              /\ Len(chatMessages') = Len(chatMessages) + 1
              /\ chatMessages'[Len(chatMessages')].role = "ai"
      ]_vars

\* C5: when the classification request of an analysis fails, the error is
\* logged, newsData and summary are still as emptied at the start of that
\* analysis, loading is false, and the search text and the chat state do not
\* change.
C5_ErrorsOnlyLogged ==
    [][ (last'.op = "analyzeNews" /\ ~Succeeded(last')) =>
            /\ logged' = "API error"
            /\ newsData' = <<>>
            /\ summary' = EmptyObject
            /\ loading' = FALSE
            /\ UNCHANGED <<searchQuery, chatVars>>
      ]_vars

RequestsOf(id) == { r \in net : r.caller = "handleAnalyze" /\ r.id = id }

\* C6: one handleAnalyze invocation never has both of its requests in flight;
\* its classification request appears only in the step that handles its
\* parsed geocoding response, and in every such step, whether or not the
\* geocoder found the location.
C6_SequentialCalls ==
    /\ [](\A id \in 1..nAnalyze : Cardinality(RequestsOf(id)) <= 1)
    /\ [][ \A id \in 1..MaxAnalyze :
             LET issued == \E r \in net' \ net :
                               r.caller = "handleAnalyze" /\ r.id = id /\ r.url = "analyze"
                 parsed == /\ last'.op = "analyzeGeo" /\ last'.id = id
                           /\ last'.out.kind = "ok"
                           /\ \E r \in net \ net' :
                                 r.caller = "handleAnalyze" /\ r.id = id /\ r.url = "geocoding"
             IN  issued <=> parsed
         ]_vars

\* a geocoding response without a feature was followed by the classification
\* request of the same invocation
C6_Witness ==
    /\ last.op = "analyzeGeo"
    /\ last.out.kind = "ok"
    /\ last.out.data.features = <<>>
    /\ \E r \in RequestsOf(last.id) : r.url = "analyze"

\* the positions of the items of a response array that are to be kept
KeptIndices(items) == { i \in 1..Len(items) : items[i].threat # "NaN" }

NthKept(items, j) ==
    CHOOSE i \in KeptIndices(items) :
        Cardinality({ k \in KeptIndices(items) : k < i }) = j - 1

\* C7: no item with threat 'NaN' is ever in newsData, and right after a
\* successful classification fetch newsData is the response array without
\* exactly those items, in response order, each item as received.
C7_NewsDataIsFilteredResponse ==
    /\ \A i \in 1..Len(newsData) : newsData[i].threat # "NaN"
    /\ Succeeded(last) =>
          /\ Len(newsData) = Cardinality(KeptIndices(last.out.data.items))
          /\ \A j \in 1..Len(newsData) :
                newsData[j] = last.out.data.items[NthKept(last.out.data.items, j)]

\* a response with a 'NaN' item before a kept one has just been handled
C7_Witness ==
    /\ Succeeded(last)
    /\ Len(last.out.data.items) = 2
    /\ last.out.data.items[1].threat = "NaN"
    /\ Len(newsData) = 1
    /\ newsData[1] = last.out.data.items[2]

\* the rank the list is specified to be ordered by
ThreatClass(item) ==
    CASE item.threat = "HIGH" -> 0
      [] item.threat = "MEDIUM" -> 1
      [] item.threat = "LOW" -> 2
      [] OTHER -> 3

OfClass(s, k) == SelectSeq(s, LAMBDA x : ThreatClass(x) = k)

\* C8: the rendered list holds the items of newsData with every HIGH item
\* before every MEDIUM one, MEDIUM before LOW, any other threat last, and
\* items of one rank in their order in newsData.
C8_RenderedSortedByThreat ==
    ~loading =>
        /\ Len(Rendered) = Len(newsData)
        /\ \A k \in 0..3 : OfClass(Rendered, k) = OfClass(newsData, k)
        /\ \A i, j \in 1..Len(Rendered) :
              i < j => ThreatClass(Rendered[i]) <= ThreatClass(Rendered[j])

\* the step just taken handled a geocoding response that holds a feature
FoundByGeocoder(step) ==
    /\ step.op \in {"analyzeGeo", "searchGeo"}
    /\ step.out.kind = "ok"
    /\ step.out.data.has
    /\ Len(step.out.data.features) >= 1

\* C9: the map moves exactly in the steps that handle a geocoding response
\* with at least one feature, and then to the center of the first feature at
\* zoom 10; the Enter-key search raises 'Location not found.' exactly when
\* its response holds no feature; a search on a blank text issues no request
\* and changes no state.
C9_SearchPansToFirstFeature ==
    [][ /\ IF FoundByGeocoder(last')
             THEN mapView' = [center |-> last'.out.data.features[1].center, zoom |-> 10]
             ELSE mapView' = mapView
        /\ (dialog' = "Location not found.") <=>
              (last'.op = "searchGeo" /\ last'.out.kind = "ok" /\ ~FoundByGeocoder(last'))
        /\ (last'.op \in {"handleAnalyze", "handleSearch"} /\ IsBlank(searchQuery)) =>
              UNCHANGED progVars
      ]_vars

\* a search whose response held two features has moved the map to the first
C9_Witness ==
    /\ last.op = "searchGeo"
    /\ FoundByGeocoder(last)
    /\ Len(last.out.data.features) = 2
    /\ mapView = [center |-> Center2, zoom |-> 10]

\* C10: loading does not stay true once no analysis is in flight: every
\* invocation that set it has set it back by the time its requests are over.
C10_LoadingEndsWithAnalysis ==
    ~AnalysisInFlight => ~loading

\* the generative requests issued and not yet handled
GenerateInFlight == Pending("handleSendChat", "generate")

\* C11: chatLoading is true exactly while a generative request is in flight:
\* in every reachable state chatLoading holds if and only if some
\* handleSendChat invocation has issued its request and not yet handled the
\* outcome, and at most one such request is in flight; a handleSendChat on an
\* input that is empty or only spaces issues no request and changes no state.
C11_ChatLoadingIffInFlight ==
    /\ [](/\ chatLoading <=> GenerateInFlight # {}
          /\ Cardinality(GenerateInFlight) <= 1)
    /\ [][ (last'.op \in {"sendClick", "sendEnter"} /\ IsBlank(chatInput)) =>
              UNCHANGED progVars
         ]_vars

====
